---- MODULE Spec2Model ----
(***************************************************************************)
(* DotDynamics simulation runtime: the Simulation page (session state      *)
(* machine, parameter sync, auto-play timers), the analysis recorder and   *)
(* the canvas engines it drives (vertical motion, pulley, incline block,   *)
(* mass-spring).                                                           *)
(*                                                                         *)
(* Units: time in ms, lengths in micrometres, velocities in mm/s,          *)
(* accelerations in m/s^2 (so v*t and a*t*t are micrometres and a*t is     *)
(* mm/s without any scaling factor).                                       *)
(*                                                                         *)
(* A handler and the React commit it causes (re-render, effect cleanups,   *)
(* effects, child before parent) are one step.  The mutable state is       *)
(* threaded through the handler as a record; Cur reads it and Apply        *)
(* writes it back.                                                         *)
(***************************************************************************)
EXTENDS Integers, Sequences, FiniteSets, TLC

VARIABLES
    simState,       \* Simulation: useState<SimState>
    engine,         \* which engine simulationData routes to ("none": null)
    params,         \* Simulation: useState params
    prevParamsRef,  \* Simulation: prevParamsRef (serialized params)
    liveValues,     \* Simulation: useState liveValues
    loading,        \* Simulation: analysis request in flight
    timers,         \* pending setTimeout(() => setSimState("playing")) callbacks
    framesRef,      \* useSimulationRecorder: framesRef
    lastTimeRef,    \* useSimulationRecorder: lastTimeRef
    rafId,          \* mounted engine: rafId (1: a tick callback is registered)
    prevTimestamp,  \* mounted engine: prevTimestamp / prevTs (0: unset)
    simTime,        \* mounted engine: simTime
    completeFired,  \* mounted engine: completeFired
    mountSimState,  \* incline engine: the simState its memoized renderFrame closed over
    zombies,        \* unmounted engines whose tick callback is still registered
    completeCount,  \* history: onComplete calls since the run began
    loads,          \* history: analyses that have loaded an engine
    savedRunsRef,   \* useSimulationRecorder: savedRunsRef
    runCounterRef,  \* useSimulationRecorder: runCounterRef
    held,           \* the array a getFrames call returned, as its caller sees it
    download,       \* exportCSV: the lines of the file handed to the browser
    marker,         \* AdvancedGraph: the frame the time marker's dots show
    vm,             \* a VerticalMotion instance (or the error its constructor threw)
    last            \* history: the last step taken and the state it left

vars == <<simState, engine, params, prevParamsRef, liveValues, loading, timers,
          framesRef, lastTimeRef, rafId, prevTimestamp, simTime, completeFired,
          mountSimState, zombies, completeCount, loads, savedRunsRef,
          runCounterRef, held, download, marker, vm, last>>

(***************************************************************************)
(* Bounds of the model                                                     *)
(***************************************************************************)
MaxTimers == 1
MaxZombies == 1
MaxCompletions == 2
MaxSimTime == 50
MaxLoads == 1
MaxSavedRuns == 1
MaxCompareRuns == 2
MaxRunCounter == 3
MaxCsvFrames == 3
MaxSeekFrames == 3
MaxVmUpdates == 3
MaxRecTime == 60100
RecWindow == 2

\* host time between two animation frames (ms): below and above the
\* 0.05 s cap
HostDeltas == {20, 60}

Cfgs == 1..3
Engines == {"vertical", "pulley", "force", "shm"}
SimStates == {"idle", "playing", "paused", "completed"}

(***************************************************************************)
(* Program constants                                                       *)
(***************************************************************************)
MAX_FRAMES == 3000
MIN_TIME_DELTA == 16
DT_CAP == 50
INITIAL_HEIGHT == 8000000
INCLINE_LENGTH == 10000000
Infinity == 1000000000

Max(a, b) == IF a >= b THEN a ELSE b
Min(a, b) == IF a <= b THEN a ELSE b
Abs(a) == IF a >= 0 THEN a ELSE -a
ISqrt(n) == CHOOSE r \in 0..1000 : r * r <= n /\ n < (r + 1) * (r + 1)

\* the element of a one-element set.  A statement runs on the state the
\* statements before it left: The({F(s) : s \in {x}}) is F applied to the
\* value of x
The(S) == CHOOSE x \in S : TRUE

ZERO_LIVE == [time |-> 0, height |-> 0, velocity |-> 0]

(***************************************************************************)
(* Configurations.  params is an index into the parameter records the      *)
(* session can hold: 0 is DEFAULT_PARAMS, 1..3 are records the analysis    *)
(* returns or the sliders produce.  Records 1 and 3 differ only in keys    *)
(* that the vertical and the incline engine do not take as props           *)
(* (initial_height; applied_force, friction); the pulley and the           *)
(* mass-spring engine take every slider key as a prop.                     *)
(***************************************************************************)
DEFAULT_PARAMS == 0

\* no file, no marker, no instance
NOTHING == [none |-> TRUE]

\* vertical: initialVelocity (mm/s) and gravity (m/s^2)
VerticalV0(p) == CASE p = 0 -> 20000 [] p = 2 -> 100 [] OTHER -> 400
VerticalG(p) == CASE p = 0 -> 10 [] OTHER -> 20

\* pulley: mass1, mass2 (kg) and gravity (m/s^2)
PulleyM1(p) == CASE p = 3 -> 2 [] OTHER -> 1
PulleyM2(p) == CASE p = 3 -> 2 [] OTHER -> 3
PulleyG(p) == CASE p = 1 -> 20000 [] p = 2 -> 80000 [] OTHER -> 10

\* incline: angle (degrees), gravity (m/s^2), mass (kg), frictionCoefficient
ForceAngle(p) == 90
ForceG(p) == CASE p = 2 -> 50000 [] OTHER -> 12500
ForceMass(p) == 2
ForceMu(p) == 0

\* mass-spring: amplitude (mm); k/mass is fixed so that the period is 40 ms
ShmAmplitude(p) == 1000 * Max(p, 1)

\* the values of the props the engine's parameter effect depends on
PropsOf(e, p) ==
    CASE e = "vertical" -> <<VerticalV0(p), VerticalG(p)>>
      [] e = "pulley" -> <<PulleyM1(p), PulleyM2(p), PulleyG(p)>>
      [] e = "force" -> <<ForceAngle(p), ForceMass(p), ForceMu(p), ForceG(p)>>
      [] e = "shm" -> <<ShmAmplitude(p)>>
      [] OTHER -> <<>>

hasEngine(st) == st.engine # "none"

(***************************************************************************)
(* useSimulationRecorder                                                   *)
(***************************************************************************)
EvenIndexed(s) == [i \in 1..((Len(s) + 1) \div 2) |-> s[2 * i - 1]]

recordFrame_noDedup(st, frame) ==
    LET pushed == Append(st.framesRef, frame)
        half == MAX_FRAMES \div 2
        old == SubSeq(pushed, 1, half)
        recent == SubSeq(pushed, half + 1, Len(pushed))
    IN [st EXCEPT !.framesRef = IF Len(pushed) > MAX_FRAMES
                                THEN EvenIndexed(old) \o recent
                                ELSE pushed,
                  !.lastTimeRef = frame.time]

recordFrame_noCap(st, frame) ==
    IF st.lastTimeRef >= 0 /\ frame.time - st.lastTimeRef < MIN_TIME_DELTA
    THEN st
    ELSE [st EXCEPT !.framesRef = Append(st.framesRef, frame),
                    !.lastTimeRef = frame.time]

recordFrame_truncates(st, frame) ==
    IF st.lastTimeRef >= 0 /\ frame.time - st.lastTimeRef < MIN_TIME_DELTA
    THEN st
    ELSE LET pushed == Append(st.framesRef, frame)
         IN [st EXCEPT !.framesRef = IF Len(pushed) > MAX_FRAMES
                                     THEN SubSeq(pushed, 1, MAX_FRAMES)
                                     ELSE pushed,
                       !.lastTimeRef = frame.time]

recordFrame_rejectMovesCursor(st, frame) ==
    IF st.lastTimeRef >= 0 /\ frame.time - st.lastTimeRef < MIN_TIME_DELTA
    THEN [st EXCEPT !.lastTimeRef = frame.time]
    ELSE LET pushed == Append(st.framesRef, frame)
             half == MAX_FRAMES \div 2
             old == SubSeq(pushed, 1, half)
             recent == SubSeq(pushed, half + 1, Len(pushed))
         IN [st EXCEPT !.framesRef = IF Len(pushed) > MAX_FRAMES
                                     THEN EvenIndexed(old) \o recent
                                     ELSE pushed,
                       !.lastTimeRef = frame.time]

recordFrame(st, frame) ==
    IF st.lastTimeRef >= 0 /\ frame.time - st.lastTimeRef < MIN_TIME_DELTA
    THEN st
    ELSE LET pushed == Append(st.framesRef, frame)
             half == MAX_FRAMES \div 2
             old == SubSeq(pushed, 1, half)
             recent == SubSeq(pushed, half + 1, Len(pushed))
         IN [st EXCEPT !.framesRef = IF Len(pushed) > MAX_FRAMES
                                     THEN EvenIndexed(old) \o recent
                                     ELSE pushed,
                       !.lastTimeRef = frame.time]

recorderReset(st) == [st EXCEPT !.framesRef = <<>>, !.lastTimeRef = -1]

\* getFrames returns framesRef.current itself.  ref says whether the array
\* the caller holds is still the one framesRef.current points to ("live")
\* or has been replaced there ("detached", frames is then its content);
\* atCall is history: its content when getFrames returned it
NO_ARRAY == [ref |-> "none", frames |-> <<>>, atCall |-> <<>>]

getFrames(frames) == [ref |-> "live", frames |-> frames, atCall |-> frames]

\* what the holder of the returned array reads from it
HeldValue == IF held.ref = "live" THEN framesRef ELSE held.frames

\* framesRef.current is assigned a new array (reset, downsampling): the
\* array held keeps the content it had, pushed being that content
Detach(h, pushed) ==
    IF h.ref = "live" THEN [h EXCEPT !.ref = "detached", !.frames = pushed] ELSE h

\* `Run ${String.fromCharCode(64 + n)}`: the character is kept as its code
AutoLabel(n) == <<"Run", 64 + n>>

\* saveRun(undefined, ...): no label given
NO_LABEL == <<>>

\* saveRun counts the save and appends a run holding a copy of the buffer;
\* st is the recorder [framesRef, savedRunsRef, runCounterRef], id the
\* value of Date.now().  copied is history: the frames are a new array
saveRun_aliasesFrames(st, label, p, id) ==
    [st EXCEPT !.runCounterRef = @ + 1,
               !.savedRunsRef =
                   Append(@, [id |-> id,
                              label |-> IF label # NO_LABEL THEN label
                                        ELSE AutoLabel(st.runCounterRef + 1),
                              params |-> p,
                              frames |-> st.framesRef,
                              copied |-> FALSE])]

saveRun(st, label, p, id) ==
    [st EXCEPT !.runCounterRef = @ + 1,
               !.savedRunsRef =
                   Append(@, [id |-> id,
                              label |-> IF label # NO_LABEL THEN label
                                        ELSE AutoLabel(st.runCounterRef + 1),
                              params |-> p,
                              frames |-> st.framesRef,
                              copied |-> TRUE])]

\* the saved runs as the panel and the graphs read them
RunsView ==
    [i \in 1..Len(savedRunsRef) |->
        [id |-> savedRunsRef[i].id,
         label |-> savedRunsRef[i].label,
         params |-> savedRunsRef[i].params,
         frames |-> IF savedRunsRef[i].copied THEN savedRunsRef[i].frames
                    ELSE framesRef]]

KeepRun(r, id) == r.id # id

removeSavedRun_recounts(st, id) ==
    [st EXCEPT !.savedRunsRef = SelectSeq(@, LAMBDA r : KeepRun(r, id)),
               !.runCounterRef =
                   Len(SelectSeq(st.savedRunsRef, LAMBDA r : KeepRun(r, id)))]

removeSavedRun(st, id) ==
    [st EXCEPT !.savedRunsRef = SelectSeq(@, LAMBDA r : KeepRun(r, id))]

clearSavedRuns(st) == [st EXCEPT !.savedRunsRef = <<>>, !.runCounterRef = 0]

(***************************************************************************)
(* exportCSV.  Numbers are integers in units of 1e-5; a cell is the text   *)
(* toFixed(4) produces, kept as sign, integer part and four decimals; the  *)
(* file is the sequence of its lines, a line the sequence of its cells.    *)
(***************************************************************************)
\* Number.prototype.toFixed(4): the sign is split off and the magnitude
\* rounded to the nearest 1e-4, the larger one when two are equally near
toFixed4(x) ==
    [neg |-> x < 0,
     whole |-> ((Abs(x) + 5) \div 10) \div 10000,
     frac |-> ((Abs(x) + 5) \div 10) % 10000]

header ==
    <<"time", "positionX", "positionY", "displacement", "height", "velocity",
      "velocityX", "velocityY", "acceleration", "ke", "pe", "totalEnergy">>

row_interfaceOrder(f) ==
    <<toFixed4(f.time), toFixed4(f.positionX), toFixed4(f.positionY),
      toFixed4(f.velocity), toFixed4(f.velocityX), toFixed4(f.velocityY),
      toFixed4(f.acceleration), toFixed4(f.ke), toFixed4(f.pe),
      toFixed4(f.totalEnergy), toFixed4(f.displacement), toFixed4(f.height)>>

row(f) ==
    <<toFixed4(f.time), toFixed4(f.positionX), toFixed4(f.positionY),
      toFixed4(f.displacement), toFixed4(f.height), toFixed4(f.velocity),
      toFixed4(f.velocityX), toFixed4(f.velocityY), toFixed4(f.acceleration),
      toFixed4(f.ke), toFixed4(f.pe), toFixed4(f.totalEnergy)>>

\* the file exportCSV makes the browser download; file is what was
\* downloaded before
exportCSV(frames, file) ==
    IF Len(frames) = 0 THEN file
    ELSE <<header>> \o [i \in 1..Len(frames) |-> row(frames[i])]

(***************************************************************************)
(* The VerticalMotion class.  Time in ms, gravity in m/s^2, velocity in    *)
(* mm/s, position in um: with these units velocity += -g * dt and          *)
(* position += velocity * dt are exact in integers.  Square roots are      *)
(* rounded down to a whole mm/s.                                           *)
(***************************************************************************)
RECURSIVE SqrtFrom(_, _)
SqrtFrom(n, x) ==
    LET y == (x + n \div x) \div 2
    IN IF y >= x THEN x ELSE SqrtFrom(n, y)

\* Math.sqrt
Sqrt(n) == IF n = 0 THEN 0 ELSE SqrtFrom(n, n)

analyticalFlightTime(v0, h0, g) ==
    IF g <= 0 THEN Infinity
    ELSE LET discriminant == v0 * v0 + 2 * g * h0
         IN IF discriminant < 0 THEN 0
            ELSE (v0 + Sqrt(discriminant)) \div g

analyticalPeakTime(v0, g) == IF v0 <= 0 \/ g <= 0 THEN 0 ELSE v0 \div g

VerticalMotion_acceptsNegativeHeight(config) ==
    IF config.gravity < 0
    THEN [threw |-> <<"Gravity must be non-negative, got", config.gravity>>]
    ELSE [initialVelocity |-> config.initialVelocity,
          initialHeight |-> config.initialHeight,
          gravity |-> config.gravity,
          analyticalPeakTime |->
              analyticalPeakTime(config.initialVelocity, config.gravity),
          analyticalFlightTime |->
              analyticalFlightTime(config.initialVelocity, config.initialHeight,
                                   config.gravity),
          time |-> 0,
          position |-> config.initialHeight,
          velocity |-> config.initialVelocity,
          maxHeight |-> config.initialHeight,
          isAtPeak |-> FALSE,
          isGrounded |-> FALSE,
          hasLaunched |-> FALSE]

\* new VerticalMotion(config): the instance, or the error thrown
VerticalMotion(config) ==
    IF config.gravity < 0
    THEN [threw |-> <<"Gravity must be non-negative, got", config.gravity>>]
    ELSE IF config.initialHeight < 0
    THEN [threw |-> <<"Initial height must be non-negative, got",
                      config.initialHeight>>]
    ELSE [initialVelocity |-> config.initialVelocity,
          initialHeight |-> config.initialHeight,
          gravity |-> config.gravity,
          analyticalPeakTime |->
              analyticalPeakTime(config.initialVelocity, config.gravity),
          analyticalFlightTime |->
              analyticalFlightTime(config.initialVelocity, config.initialHeight,
                                   config.gravity),
          time |-> 0,
          position |-> config.initialHeight,
          velocity |-> config.initialVelocity,
          maxHeight |-> config.initialHeight,
          isAtPeak |-> FALSE,
          isGrounded |-> FALSE,
          hasLaunched |-> FALSE]

getState(m) ==
    [time |-> m.time,
     position |-> m.position,
     velocity |-> m.velocity,
     acceleration |-> -m.gravity,
     maxHeight |-> m.maxHeight,
     peakTime |-> m.analyticalPeakTime,
     flightTime |-> m.analyticalFlightTime,
     isAtPeak |-> m.isAtPeak,
     isGrounded |-> m.isGrounded]

\* the instance after update(deltaTime)
update(m, deltaTime) ==
    LET dt == Min(Max(deltaTime, 0), DT_CAP)
        velocity == m.velocity + (-m.gravity) * dt
        position == m.position + velocity * dt
        moved == [m EXCEPT !.hasLaunched = TRUE,
                           !.velocity = velocity,
                           !.position = position,
                           !.time = @ + dt,
                           !.isAtPeak = m.velocity > 0 /\ velocity <= 0,
                           !.maxHeight = IF position > @ THEN position ELSE @]
    IN IF m.isGrounded \/ dt = 0 THEN m
       ELSE IF moved.position <= 0 /\ moved.hasLaunched
            THEN [moved EXCEPT !.position = 0, !.velocity = 0,
                               !.isGrounded = TRUE]
            ELSE moved

reset_keepsMaxHeight(m) ==
    [m EXCEPT !.time = 0,
              !.position = m.initialHeight,
              !.velocity = m.initialVelocity,
              !.isAtPeak = FALSE,
              !.isGrounded = FALSE,
              !.hasLaunched = FALSE]

reset(m) ==
    [m EXCEPT !.time = 0,
              !.position = m.initialHeight,
              !.velocity = m.initialVelocity,
              !.maxHeight = m.initialHeight,
              !.isAtPeak = FALSE,
              !.isGrounded = FALSE,
              !.hasLaunched = FALSE]

(***************************************************************************)
(* AdvancedGraph: the time marker and the frame whose values its dots show *)
(***************************************************************************)
\* let maxTime = 1 (second); Math.max(maxTime, last time * 1.05), in
\* hundredths of a millisecond
graphMaxTime(frames, runs) ==
    LET own == IF Len(frames) > 0 THEN {frames[Len(frames)].time * 105} ELSE {}
        saved == {runs[i].frames[Len(runs[i].frames)].time * 105 :
                     i \in {j \in 1..Len(runs) : Len(runs[j].frames) > 0}}
    IN  CHOOSE m \in {100000} \cup own \cup saved :
            \A o \in {100000} \cup own \cup saved : o <= m

\* if (diff < minDiff)
Closer_orEqual(diff, minDiff) == diff <= minDiff

Closer(diff, minDiff) == diff < minDiff

\* for (let i = 1; i < frames.length; i++): i counts from 1 as Sequences do
RECURSIVE closestFrom(_, _, _, _)
closestFrom(frames, currentTime, i, closest) ==
    IF i > Len(frames) THEN closest
    ELSE closestFrom(frames, currentTime, i + 1,
             IF Closer(Abs(frames[i].time - currentTime),
                       Abs(closest.time - currentTime))
             THEN frames[i] ELSE closest)

\* what the marker shows: nothing, or the frame its dots are drawn from
timeMarker(frames, runs, currentTime) ==
    IF Len(frames) > 0 /\ currentTime > 0
    THEN IF currentTime * 100 <= graphMaxTime(frames, runs)
         THEN closestFrom(frames, currentTime, 2, frames[1])
         ELSE NOTHING
    ELSE NOTHING

(***************************************************************************)
(* ComparePanel                                                            *)
(***************************************************************************)
handleSave_unguarded(st, p, id) == saveRun(st, NO_LABEL, p, id)

handleSave(st, p, id) ==
    IF Len(st.framesRef) = 0 THEN st ELSE saveRun(st, NO_LABEL, p, id)

handleRemove(st, id) == removeSavedRun(st, id)

handleClearAll(st) == clearSavedRuns(st)

(***************************************************************************)
(* Simulation: engine callbacks                                            *)
(***************************************************************************)
handleEngineFrame(st, values) == [st EXCEPT !.liveValues = values]

\* the RecordedFrame built by recordAnalysisFrame.  The recorder reads
\* nothing of a frame but its time, so the payload is left out; stale is
\* history: the frame was recorded before the last transition into idle
recordAnalysisFrame(st, t) ==
    recordFrame(st, [time |-> t, stale |-> FALSE, superseded |-> FALSE])

\* the onFrame adapter passed to an engine
onFrame(st, t, h, v) ==
    recordAnalysisFrame(
        handleEngineFrame(st, [time |-> t, height |-> h, velocity |-> v]), t)

handleEngineComplete(st) ==
    [st EXCEPT !.simState = "completed",
               !.completeCount = Min(st.completeCount + 1, MaxCompletions)]

(***************************************************************************)
(* VerticalMotionEngine                                                    *)
(***************************************************************************)
computeHeight(v0, g, t) == v0 * t - (g * t * t) \div 2
computeVelocity(v0, g, t) == v0 - g * t
computeFlightTime(v0, g) == IF g = 0 THEN Infinity ELSE (2 * v0) \div g

VerticalRender(st, t) ==
    LET v0 == VerticalV0(st.params)
        g == VerticalG(st.params)
        h == Max(0, computeHeight(v0, g, t))
        v == computeVelocity(v0, g, t)
    IN onFrame(st, t, h, v)

stopSim(st) == [st EXCEPT !.rafId = 0, !.prevTimestamp = 0]

resetSim(st) == [stopSim(st) EXCEPT !.simTime = 0, !.completeFired = FALSE]

startSim(st) == [stopSim(st) EXCEPT !.rafId = 1]

VerticalTick_restartsOnLongFrame(st, deltaMs) ==
    LET deltaSec == Min(deltaMs, DT_CAP)
        t == IF deltaMs > DT_CAP THEN 0 ELSE st.simTime + deltaSec
        flightTime == computeFlightTime(VerticalV0(st.params), VerticalG(st.params))
        s1 == [st EXCEPT !.prevTimestamp = 1, !.simTime = t]
    IN IF t >= flightTime /\ flightTime > 0
       THEN The({[(IF ~s2.completeFired
                    THEN handleEngineComplete([s2 EXCEPT !.completeFired = TRUE])
                    ELSE s2) EXCEPT !.rafId = 0] :
                 s2 \in {VerticalRender([s1 EXCEPT !.simTime = flightTime],
                                        flightTime)}})
       ELSE VerticalRender(s1, t)

\* one animation-frame callback; deltaMs is timestamp - prevTimestamp
VerticalTick(st, deltaMs) ==
    LET deltaSec == Min(deltaMs, DT_CAP)
        t == st.simTime + deltaSec
        flightTime == computeFlightTime(VerticalV0(st.params), VerticalG(st.params))
        s1 == [st EXCEPT !.prevTimestamp = 1, !.simTime = t]
    IN IF t >= flightTime /\ flightTime > 0
       THEN The({[(IF ~s2.completeFired
                    THEN handleEngineComplete([s2 EXCEPT !.completeFired = TRUE])
                    ELSE s2) EXCEPT !.rafId = 0] :
                 s2 \in {VerticalRender([s1 EXCEPT !.simTime = flightTime],
                                        flightTime)}})
       ELSE VerticalRender(s1, t)

\* the state machine effect, for the rendered simState rs
VerticalStateEffect(rs, st) ==
    CASE rs = "idle" ->
            The({onFrame(s1, 0, 0, VerticalV0(s1.params)) :
                    s1 \in {VerticalRender(resetSim(st), 0)}})
      [] rs = "playing" -> startSim([st EXCEPT !.completeFired = FALSE])
      [] rs = "paused" -> LET s1 == stopSim(st) IN VerticalRender(s1, s1.simTime)
      [] OTHER -> stopSim(st)

\* dynamic parameter synchronization, deps [initialVelocity, gravity]
VerticalParamEffect(rs, st) ==
    CASE rs = "idle" -> VerticalRender(resetSim(st), 0)
      [] rs = "playing" -> startSim(resetSim(st))
      [] rs = "paused" -> VerticalRender(st, st.simTime)
      [] OTHER -> st

(***************************************************************************)
(* PulleyEngine                                                            *)
(***************************************************************************)
computeAcceleration(m1, m2, g) == ((m2 - m1) * g) \div (m1 + m2)
computeDisplacement(a, t) == (a * t * t) \div 2
PulleyFlightTime(a, h0) == IF a = 0 THEN Infinity ELSE ISqrt((2 * h0) \div Abs(a))

PulleyAccel(st) ==
    computeAcceleration(PulleyM1(st.params), PulleyM2(st.params), PulleyG(st.params))

PulleyRender(st, t) ==
    LET a == PulleyAccel(st)
        v == a * t
        s == computeDisplacement(a, t)
        h1 == INITIAL_HEIGHT + s
        h2 == INITIAL_HEIGHT - s
        mid == (h1 + h2) \div 2
    IN onFrame(st, t, mid, Abs(v))

PulleyTick(st, deltaMs) ==
    LET deltaSec == Min(deltaMs, DT_CAP)
        t == st.simTime + deltaSec
        flightTime == PulleyFlightTime(PulleyAccel(st), INITIAL_HEIGHT)
        s1 == [st EXCEPT !.prevTimestamp = 1, !.simTime = t]
    IN IF t >= flightTime /\ flightTime < Infinity
       THEN The({[(IF ~s2.completeFired
                    THEN handleEngineComplete([s2 EXCEPT !.completeFired = TRUE])
                    ELSE s2) EXCEPT !.rafId = 0] :
                 s2 \in {PulleyRender([s1 EXCEPT !.simTime = flightTime],
                                      flightTime)}})
       ELSE PulleyRender(s1, t)

PulleyStateEffect(rs, st) ==
    CASE rs = "idle" -> PulleyRender(resetSim(st), 0)
      [] rs = "playing" -> startSim([st EXCEPT !.completeFired = FALSE])
      [] rs = "paused" -> LET s1 == stopSim(st) IN PulleyRender(s1, s1.simTime)
      [] OTHER -> LET s1 == stopSim(st) IN PulleyRender(s1, s1.simTime)

PulleyParamEffect(rs, st) ==
    CASE rs = "idle" -> PulleyRender(resetSim(st), 0)
      [] rs = "playing" -> startSim(resetSim(st))
      [] rs = "paused" -> PulleyRender(st, st.simTime)
      [] OTHER -> st

\* redraw on canvas resize, deps [dims]
PulleyDimsEffect(rs, st) ==
    CASE rs = "idle" -> PulleyRender(st, 0)
      [] rs \in {"paused", "completed"} -> PulleyRender(st, st.simTime)
      [] OTHER -> st

(***************************************************************************)
(* ForceInteractionEngine (block on an incline)                            *)
(***************************************************************************)
\* Math.sin(toRad(deg)) and Math.cos(toRad(deg)) at the angles of the
\* configurations, 0 and 90 degrees
sinDeg(deg) == IF deg = 90 THEN 1 ELSE 0
cosDeg(deg) == IF deg = 0 THEN 1 ELSE 0

calculateForces(m, g, deg, mu) ==
    LET weight == m * g
        normal == weight * cosDeg(deg)
        parallel == weight * sinDeg(deg)
        maxFriction == mu * normal
        friction == Min(parallel, maxFriction)
        net == parallel - friction
    IN [net |-> net, accel |-> net \div m]

ForceAccel(st) ==
    calculateForces(ForceMass(st.params), ForceG(st.params),
                    ForceAngle(st.params), ForceMu(st.params)).accel

\* analytic time at which the block reaches the end of the incline
ForceFinalT(accel) ==
    IF accel > 0 THEN ISqrt((2 * INCLINE_LENGTH) \div accel) ELSE Infinity

\* renderFrame is memoized with no dependencies: the simState it tests is
\* the one of the first render
ForceRender(st, t) ==
    LET accel == ForceAccel(st)
        x0 == (accel * t * t) \div 2
        atEnd == x0 >= INCLINE_LENGTH
        finalT == ForceFinalT(accel)
        reachedEnd == atEnd /\ t > finalT /\ accel > 0
        x == IF atEnd THEN INCLINE_LENGTH ELSE x0
        v == IF reachedEnd THEN accel * finalT ELSE accel * t
    IN The({IF reachedEnd /\ st.mountSimState = "playing"
            THEN handleEngineComplete(s1)
            ELSE s1 : s1 \in {onFrame(st, t, x, v)}})

\* stopLoop that leaves the registered callback in place
stopLoop_keepsCallback(st) == [st EXCEPT !.prevTimestamp = 0]

stopLoop(st) == [st EXCEPT !.rafId = 0, !.prevTimestamp = 0]

startLoop(st) == [stopLoop(st) EXCEPT !.rafId = 1]

ForceTick(st, deltaMs) ==
    LET dt == Min(deltaMs, DT_CAP)
        s1 == [st EXCEPT !.prevTimestamp = 1]
        x == (ForceAccel(st) * st.simTime * st.simTime) \div 2
    IN IF x < INCLINE_LENGTH
       THEN ForceRender([s1 EXCEPT !.simTime = st.simTime + dt], st.simTime + dt)
       ELSE The({stopLoop(handleEngineComplete(r2)) :
                 r2 \in {ForceRender([r1 EXCEPT !.simTime = st.simTime + dt],
                                     st.simTime + dt) :
                            r1 \in {ForceRender(s1, s1.simTime)}}})

ForceStateEffect(rs, st) ==
    CASE rs = "idle" -> ForceRender([stopLoop(st) EXCEPT !.simTime = 0], 0)
      [] rs = "playing" -> startLoop(st)
      [] rs = "paused" -> stopLoop(st)
      [] OTHER -> st

\* deps [angle, mass, frictionCoefficient, gravity, inclineLength]
ForceParamEffect(rs, st) ==
    CASE rs = "idle" -> ForceRender([st EXCEPT !.simTime = 0], 0)
      [] rs = "playing" -> startLoop([stopLoop(st) EXCEPT !.simTime = 0])
      [] rs = "paused" -> ForceRender(st, st.simTime)
      [] OTHER -> st

(***************************************************************************)
(* SimpleHarmonicMotionEngine                                              *)
(***************************************************************************)
\* cos and sin of omega*t for a period of 40 ms, at t a multiple of 10 ms
cosQ(t) == CASE (t \div 10) % 4 = 0 -> 1 [] (t \div 10) % 4 = 2 -> -1 [] OTHER -> 0
sinQ(t) == CASE (t \div 10) % 4 = 1 -> 1 [] (t \div 10) % 4 = 3 -> -1 [] OTHER -> 0

\* x in mm, v in units of omega mm/s
calculateSHM(t, A) == [x |-> A * cosQ(t), v |-> -A * sinQ(t)]

ShmRender(st, t) ==
    LET res == calculateSHM(t, ShmAmplitude(st.params))
    IN onFrame(st, t, res.x, res.v)

\* startLoop cancels the registered callback and registers a new one;
\* prevTs is left alone
ShmStartLoop(st) == [st EXCEPT !.rafId = 1]

ShmStopLoop(st) == [st EXCEPT !.rafId = 0, !.prevTimestamp = 0]

ShmTick_completesAfterPeriod(st, deltaMs) ==
    LET dt == Min(deltaMs, DT_CAP)
        s1 == ShmRender([st EXCEPT !.prevTimestamp = 1,
                                   !.simTime = st.simTime + dt],
                        st.simTime + dt)
    IN IF st.simTime + dt >= 40
       THEN [handleEngineComplete(s1) EXCEPT !.rafId = 0]
       ELSE s1

ShmTick(st, deltaMs) ==
    LET dt == Min(deltaMs, DT_CAP)
    IN ShmRender([st EXCEPT !.prevTimestamp = 1, !.simTime = st.simTime + dt],
                 st.simTime + dt)

\* deps [simState, startLoop, stopLoop, renderFrame]; it returns no cleanup
ShmStateEffect(rs, st) ==
    LET s1 == IF rs = "playing" THEN ShmStartLoop(st) ELSE ShmStopLoop(st)
    IN IF rs = "idle" THEN ShmRender([s1 EXCEPT !.simTime = 0], 0) ELSE s1

\* deps [mass, k, amplitude]
ShmParamEffect(rs, st) ==
    CASE rs = "idle" -> ShmRender([st EXCEPT !.simTime = 0], 0)
      [] rs = "playing" -> ShmStartLoop([ShmStopLoop(st) EXCEPT !.simTime = 0])
      [] rs = "paused" -> ShmRender(st, st.simTime)
      [] OTHER -> st

(***************************************************************************)
(* React commit: what a re-render does to the mounted engine and to the    *)
(* Simulation page's own effects                                           *)
(***************************************************************************)
\* cleanup returned by the engine's state machine effect
Cleanup(e, st) ==
    CASE e \in {"vertical", "pulley"} -> stopSim(st)
      [] e = "force" -> stopLoop(st)
      [] OTHER -> st

StateEffect(e, rs, st) ==
    CASE e = "vertical" -> VerticalStateEffect(rs, st)
      [] e = "pulley" -> PulleyStateEffect(rs, st)
      [] e = "force" -> ForceStateEffect(rs, st)
      [] e = "shm" -> ShmStateEffect(rs, st)
      [] OTHER -> st

ParamEffect(e, rs, st) ==
    CASE e = "vertical" -> VerticalParamEffect(rs, st)
      [] e = "pulley" -> PulleyParamEffect(rs, st)
      [] e = "force" -> ForceParamEffect(rs, st)
      [] e = "shm" -> ShmParamEffect(rs, st)
      [] OTHER -> st

DimsEffect(e, rs, st) ==
    CASE e = "pulley" -> PulleyDimsEffect(rs, st)
      [] e = "shm" -> ShmStateEffect(rs, st)
      [] OTHER -> st

\* an engine leaves the tree: its effect cleanup runs; a callback it still
\* has registered afterwards goes on running without it.  The refs of the
\* next engine instance are fresh.
Unmount(e, st) ==
    The({[s1 EXCEPT !.zombies = IF s1.rafId = 1
                                THEN Append(@, [simTime |-> s1.simTime,
                                                prevTimestamp |-> s1.prevTimestamp])
                                ELSE @,
                    !.rafId = 0, !.prevTimestamp = 0, !.simTime = 0,
                    !.completeFired = FALSE, !.mountSimState = "idle"] :
            s1 \in {Cleanup(e, st)}})

\* first render of an engine: every effect runs, in declaration order
Mount(e, rs, st) ==
    The({IF e = "pulley" THEN PulleyDimsEffect(rs, s2) ELSE s2 :
            s2 \in {ParamEffect(e, rs, s1) :
                       s1 \in {StateEffect(e, rs, s0) :
                                  s0 \in {[st EXCEPT !.mountSimState =
                                              IF e = "force" THEN rs ELSE "idle"]}}}})

\* Simulation: dynamic parameter sync effect, deps [params]
ParentParamEffect(rs, st) ==
    IF st.params = st.prevParamsRef
    THEN st
    ELSE The({IF hasEngine(s1) /\ rs # "idle"
              THEN [recorderReset(s1) EXCEPT !.liveValues = ZERO_LIVE]
              ELSE s1 : s1 \in {[st EXCEPT !.prevParamsRef = st.params]}})

\* one render of the tree with simState rs; old is what the previous
\* render showed
CommitOnce(old, rs, st) ==
    LET e == st.engine
        engineDone ==
            IF e # old.engine
            THEN The({IF e = "none" THEN u ELSE Mount(e, rs, u) :
                         u \in {IF old.engine = "none"
                                THEN st
                                ELSE Unmount(old.engine, st)}})
            ELSE IF e = "none" THEN st
            ELSE The({IF PropsOf(e, st.params) # PropsOf(e, old.params)
                      THEN ParamEffect(e, rs, a)
                      ELSE a :
                         a \in {IF rs # old.simState
                                THEN The({StateEffect(e, rs, c) :
                                             c \in {Cleanup(e, st)}})
                                ELSE st}})
    IN The({ParentParamEffect(rs, s1) : s1 \in {engineDone}})

\* an effect that sets simState (the incline's renderFrame calling
\* onComplete) causes one more render
Commit(old, st) ==
    The({IF s1.simState # st.simState
         THEN CommitOnce([old EXCEPT !.simState = st.simState,
                                     !.engine = st.engine,
                                     !.params = st.params],
                         s1.simState, s1)
         ELSE s1 : s1 \in {CommitOnce(old, st.simState, st)}})

(***************************************************************************)
(* Steps                                                                   *)
(***************************************************************************)
Cur ==
    [simState |-> simState, engine |-> engine, params |-> params,
     prevParamsRef |-> prevParamsRef, liveValues |-> liveValues,
     loading |-> loading, timers |-> timers, framesRef |-> framesRef,
     lastTimeRef |-> lastTimeRef, rafId |-> rafId,
     prevTimestamp |-> prevTimestamp, simTime |-> simTime,
     completeFired |-> completeFired, mountSimState |-> mountSimState,
     zombies |-> zombies, completeCount |-> completeCount,
     loads |-> loads]

Apply(st, event) ==
    /\ Len(st.zombies) <= MaxZombies
    /\ st.simTime <= MaxSimTime
    /\ simState' = st.simState
    /\ engine' = st.engine
    /\ params' = st.params
    /\ prevParamsRef' = st.prevParamsRef
    /\ liveValues' = st.liveValues
    /\ loading' = st.loading
    /\ timers' = st.timers
    /\ framesRef' = st.framesRef
    /\ lastTimeRef' = st.lastTimeRef
    /\ rafId' = st.rafId
    /\ prevTimestamp' = st.prevTimestamp
    /\ simTime' = st.simTime
    /\ completeFired' = st.completeFired
    /\ mountSimState' = st.mountSimState
    /\ zombies' = st.zombies
    /\ completeCount' = st.completeCount
    /\ loads' = st.loads
    /\ UNCHANGED <<savedRunsRef, runCounterRef, held, download, marker, vm>>
    /\ last' = [event |-> event, from |-> simState]

\* history: the frames in the buffer were recorded before this point
MarkStale(st) ==
    [st EXCEPT !.framesRef = [i \in 1..Len(st.framesRef) |->
                                 [st.framesRef[i] EXCEPT !.stale = TRUE]]]

\* history: the frames in the buffer were evaluated under a configuration
\* that is being replaced
MarkSuperseded(st) ==
    [st EXCEPT !.framesRef = [i \in 1..Len(st.framesRef) |->
                                 [st.framesRef[i] EXCEPT !.superseded = TRUE]]]

\* history: a new run begins
NewRun(st) == [st EXCEPT !.completeCount = 0]

\* handleVisualize up to the fetch: the Visualize button is disabled while
\* loading
HandleVisualize ==
    /\ ~loading
    /\ \E s0 \in {IF simState # "idle" THEN NewRun(MarkStale(Cur)) ELSE Cur} :
       \E st \in {[s0 EXCEPT !.loading = TRUE, !.simState = "idle"]} :
       \E nx \in {Commit(Cur, st)} : Apply(nx, "visualize")

\* handleVisualize after a successful response naming engine e and
\* parameters p
FetchOk ==
    /\ loading
    /\ loads < MaxLoads
    /\ timers < MaxTimers
    /\ \E e \in Engines, p \in Cfgs :
          \E st \in {[MarkSuperseded(Cur) EXCEPT !.engine = e,
                                  !.params = p,
                                  !.loading = FALSE,
                                  !.loads = @ + 1,
                                  !.timers = @ + 1]} :
          \E nx \in {Commit(Cur, st)} : Apply(nx, "fetchOk")

\* handleVisualize after a failed request
FetchFail ==
    /\ loading
    /\ \E nx \in {[Cur EXCEPT !.loading = FALSE]} : Apply(nx, "fetchFail")

\* the Play button is enabled when canPlay
HandlePlay ==
    /\ hasEngine(Cur)
    /\ simState \in {"idle", "paused"}
    /\ \E st \in {[Cur EXCEPT !.simState = "playing"]} :
       \E nx \in {Commit(Cur, st)} : Apply(nx, "play")

\* the Pause button is rendered when canPause
HandlePause ==
    /\ simState = "playing"
    /\ \E st \in {[Cur EXCEPT !.simState = "paused"]} :
       \E nx \in {Commit(Cur, st)} : Apply(nx, "pause")

\* handleReplay without its recorder.reset() call
handleReplay_keepsRecorder(old) ==
    LET s0 == NewRun(MarkStale(old))
        s1 == [s0 EXCEPT !.simState = "idle", !.liveValues = ZERO_LIVE]
    IN [s1 EXCEPT !.timers = @ + 1]

handleReplay(old) ==
    LET s0 == NewRun(MarkStale(old))
        s1 == [s0 EXCEPT !.simState = "idle", !.liveValues = ZERO_LIVE]
        s2 == recorderReset(s1)
    IN [s2 EXCEPT !.timers = @ + 1]

\* the Replay button is rendered when canReplay
HandleReplay ==
    /\ simState = "completed"
    /\ timers < MaxTimers
    /\ \E st \in {handleReplay(Cur)} :
       \E nx \in {Commit(Cur, st)} : Apply(nx, "replay")

\* handleReset without its recorder.reset() call
handleReset_keepsRecorder(old) ==
    LET s0 == NewRun(MarkStale(old))
    IN [s0 EXCEPT !.simState = "idle", !.engine = "none",
                  !.params = DEFAULT_PARAMS, !.liveValues = ZERO_LIVE]

handleReset(old) ==
    LET s0 == NewRun(MarkStale(old))
        s1 == [s0 EXCEPT !.simState = "idle", !.engine = "none",
                         !.params = DEFAULT_PARAMS, !.liveValues = ZERO_LIVE]
    IN recorderReset(s1)

HandleReset ==
    \E st \in {handleReset(Cur)} :
    \E nx \in {Commit(Cur, st)} : Apply(nx, "reset")

\* a slider moves (the sliders are shown with or without an engine): params
\* becomes another record
ChangeParam ==
    \E p \in Cfgs \ {params} :
        \E s0 \in {IF simState = "playing" THEN NewRun(Cur) ELSE Cur} :
        \E st \in {[MarkSuperseded(s0) EXCEPT !.params = p]} :
        \E nx \in {Commit(Cur, st)} :
            Apply(nx, IF PropsOf(engine, p) # PropsOf(engine, params)
                      THEN "paramProp" ELSE "paramAux")

EngineTick(st, deltaMs) ==
    CASE st.engine = "vertical" -> VerticalTick(st, deltaMs)
      [] st.engine = "pulley" -> PulleyTick(st, deltaMs)
      [] st.engine = "force" -> ForceTick(st, deltaMs)
      [] st.engine = "shm" -> ShmTick(st, deltaMs)
      [] OTHER -> st

\* the animation-frame callback registered by the mounted engine runs; the
\* first callback after a (re)start measures no elapsed time
Tick ==
    /\ rafId = 1
    /\ \E d \in HostDeltas :
          \E st \in {EngineTick(Cur, IF prevTimestamp = 0 THEN 0 ELSE d)} :
          \E nx \in {Commit(Cur, st)} : Apply(nx, "tick")

\* a setTimeout callback armed by handleVisualize or handleReplay runs
TimerFire ==
    /\ timers > 0
    /\ \E st \in {[Cur EXCEPT !.timers = @ - 1, !.simState = "playing"]} :
       \E nx \in {Commit(Cur, st)} : Apply(nx, "timer")

\* the callback of an unmounted mass-spring engine runs: it advances that
\* engine's clock and registers itself again; renderFrame returns at the
\* null canvas before it reports a frame
ZombieTick ==
    \E i \in 1..Len(zombies), d \in HostDeltas :
        LET z == zombies[i]
            deltaMs == IF z.prevTimestamp = 0 THEN 0 ELSE d
            dt == Min(deltaMs, DT_CAP)
        IN /\ z.simTime + dt <= MaxSimTime
           /\ \E nx \in {[Cur EXCEPT !.zombies[i] = [simTime |-> z.simTime + dt,
                                                       prevTimestamp |-> 1]]} :
                  Apply(nx, "zombieTick")

\* the ResizeObserver changes dims
Resize ==
    /\ engine \in {"pulley", "shm"}
    /\ \E nx \in {DimsEffect(engine, simState, Cur)} : Apply(nx, "resize")

Init ==
    /\ simState = "idle"
    /\ engine = "none"
    /\ params = DEFAULT_PARAMS
    /\ prevParamsRef = DEFAULT_PARAMS
    /\ liveValues = ZERO_LIVE
    /\ loading = FALSE
    /\ timers = 0
    /\ framesRef = <<>>
    /\ lastTimeRef = -1
    /\ rafId = 0
    /\ prevTimestamp = 0
    /\ simTime = 0
    /\ completeFired = FALSE
    /\ mountSimState = "idle"
    /\ zombies = <<>>
    /\ completeCount = 0
    /\ loads = 0
    /\ savedRunsRef = <<>>
    /\ runCounterRef = 0
    /\ held = NO_ARRAY
    /\ download = NOTHING
    /\ marker = NOTHING
    /\ vm = NOTHING
    /\ last = [event |-> "init", from |-> "idle"]

Next ==
    \/ HandleVisualize
    \/ FetchOk
    \/ FetchFail
    \/ HandlePlay
    \/ HandlePause
    \/ HandleReplay
    \/ HandleReset
    \/ ChangeParam
    \/ Tick
    \/ ZombieTick
    \/ TimerFire
    \/ Resize

Spec == Init /\ [][Next]_vars

\* the host runs a setTimeout callback once its delay has passed
FairSpec == Spec /\ WF_vars(TimerFire)

(***************************************************************************)
(* The handlers called in any state.  The page renders one transport       *)
(* button whose handler follows simState (canReplay / canPause / canPlay), *)
(* so through the page a handler runs only in the states above; here each  *)
(* handler is also called directly, whatever the state is.                 *)
(***************************************************************************)
\* handlePause without its test of simState
handlePause_unguarded(old) == [old EXCEPT !.simState = "paused"]

handlePause(old) ==
    IF old.simState = "playing" THEN [old EXCEPT !.simState = "paused"] ELSE old

\* handlePlay without its test of simState
handlePlay_unguarded(old) == [old EXCEPT !.simState = "playing"]

handlePlay(old) ==
    IF old.simState \in {"idle", "paused"}
    THEN [old EXCEPT !.simState = "playing"]
    ELSE old

CallPlay ==
    \E st \in {handlePlay(Cur)} :
    \E nx \in {Commit(Cur, st)} : Apply(nx, "callPlay")

CallPause ==
    \E st \in {handlePause(Cur)} :
    \E nx \in {Commit(Cur, st)} : Apply(nx, "callPause")

CallReplay ==
    /\ timers < MaxTimers
    /\ \E st \in {handleReplay(Cur)} :
       \E nx \in {Commit(Cur, st)} : Apply(nx, "callReplay")

HandlerNext ==
    \/ Next
    \/ CallPlay
    \/ CallPause
    \/ CallReplay

HandlerSpec == Init /\ [][HandlerNext]_vars

(***************************************************************************)
(* The recorder on its own: recordFrame, reset, getFrames and saveRun      *)
(* called with frames of any time.  Frames too early, frames after a clock *)
(* restart, reset, getFrames and saveRun are tried while the buffer is     *)
(* within RecWindow frames of empty or of MAX_FRAMES; a buffer more than   *)
(* half full of which no array is held and no run is saved is filled with  *)
(* accepted frames up to the window.  The recorder starts empty or as a    *)
(* run leaves it that has recorded a frame every MIN_TIME_DELTA up to the  *)
(* edge of the window below MAX_FRAMES, for the first or the second time.  *)
(***************************************************************************)
\* the buffer after n frames recorded MIN_TIME_DELTA apart from t = 0
Filled(n) == [i \in 1..n |-> [time |-> (i - 1) * MIN_TIME_DELTA, stale |-> FALSE]]

\* the recorder after frame MAX_FRAMES + 1 of that run, and after the run
\* has gone on until the buffer holds n frames again
Refilled(n) ==
    LET full == [framesRef |-> Filled(MAX_FRAMES),
                 lastTimeRef |-> (MAX_FRAMES - 1) * MIN_TIME_DELTA]
        down == recordFrame(full, [time |-> MAX_FRAMES * MIN_TIME_DELTA,
                                   stale |-> FALSE]).framesRef
    IN down \o [i \in 1..(n - Len(down)) |->
                   [time |-> (MAX_FRAMES + i) * MIN_TIME_DELTA, stale |-> FALSE]]

RecStarts == {<<>>, Filled(MAX_FRAMES - RecWindow), Refilled(MAX_FRAMES - RecWindow)}

RecInit ==
    /\ simState = "idle"
    /\ engine = "none"
    /\ params = DEFAULT_PARAMS
    /\ prevParamsRef = DEFAULT_PARAMS
    /\ liveValues = ZERO_LIVE
    /\ loading = FALSE
    /\ timers = 0
    /\ framesRef \in RecStarts
    /\ lastTimeRef = IF framesRef = <<>> THEN -1
                     ELSE framesRef[Len(framesRef)].time
    /\ rafId = 0
    /\ prevTimestamp = 0
    /\ simTime = 0
    /\ completeFired = FALSE
    /\ mountSimState = "idle"
    /\ zombies = <<>>
    /\ completeCount = 0
    /\ loads = 0
    /\ savedRunsRef = <<>>
    /\ runCounterRef = 0
    /\ held = NO_ARRAY
    /\ download = NOTHING
    /\ marker = NOTHING
    /\ vm = NOTHING
    /\ last = [event |-> "init", from |-> "idle"]

InWindow ==
    \/ Len(framesRef) <= RecWindow
    \/ Len(framesRef) >= MAX_FRAMES - RecWindow

\* times of the frames offered: the clock restarted at 0, just below the
\* dedup distance, at the dedup distance
Offers ==
    IF InWindow
    THEN {0, lastTimeRef + MIN_TIME_DELTA - 1, lastTimeRef + MIN_TIME_DELTA}
    ELSE IF /\ Len(framesRef) > MAX_FRAMES \div 2
            /\ held = NO_ARRAY
            /\ savedRunsRef = <<>>
            /\ runCounterRef = 0
            /\ params = DEFAULT_PARAMS
         THEN {0, lastTimeRef + MIN_TIME_DELTA}
         ELSE {}

RecApply(frames, cursor, runs, h, step) ==
    /\ framesRef' = frames
    /\ lastTimeRef' = cursor
    /\ savedRunsRef' = runs
    /\ held' = h
    /\ last' = step
    /\ UNCHANGED <<simState, engine, params, prevParamsRef, liveValues, loading,
                   timers, rafId, prevTimestamp, simTime, completeFired,
                   mountSimState, zombies, completeCount, loads,
                   runCounterRef, download, marker, vm>>

\* the recorder as the ComparePanel handlers see it
RecCur ==
    [framesRef |-> framesRef, savedRunsRef |-> savedRunsRef,
     runCounterRef |-> runCounterRef]

\* the ComparePanel handlers write the saved runs and the run counter
CmpApply(st, step) ==
    /\ framesRef' = st.framesRef
    /\ savedRunsRef' = st.savedRunsRef
    /\ runCounterRef' = st.runCounterRef
    /\ last' = step
    /\ UNCHANGED <<simState, engine, params, prevParamsRef, liveValues, loading,
                   timers, rafId, prevTimestamp, simTime, completeFired,
                   mountSimState, zombies, completeCount, loads, lastTimeRef,
                   held, download, marker, vm>>

\* Date.now() at a save: the millisecond of the latest stored run or a
\* later one (only equality of ids is ever tested)
NowIds ==
    IF savedRunsRef = <<>> THEN {1}
    ELSE {savedRunsRef[Len(savedRunsRef)].id,
          savedRunsRef[Len(savedRunsRef)].id + 1}

RecRecord ==
    \E t \in Offers :
        /\ t <= MaxRecTime
        /\ \E nx \in {recordFrame(Cur, [time |-> t, stale |-> FALSE])} :
              RecApply(nx.framesRef, nx.lastTimeRef, savedRunsRef,
                       IF nx.lastTimeRef = lastTimeRef /\ nx.framesRef = framesRef
                       THEN held
                       ELSE IF Len(framesRef) + 1 > MAX_FRAMES
                            THEN Detach(held,
                                        Append(framesRef,
                                               [time |-> t, stale |-> FALSE]))
                            ELSE held,
                       [event |-> "record", from |-> simState, time |-> t])

RecReset ==
    /\ InWindow
    /\ \E nx \in {recorderReset(Cur)} :
          RecApply(nx.framesRef, nx.lastTimeRef, savedRunsRef,
                   Detach(held, framesRef),
                   [event |-> "recorderReset", from |-> simState])

RecGetFrames ==
    /\ InWindow
    /\ RecApply(framesRef, lastTimeRef, savedRunsRef, getFrames(framesRef),
                [event |-> "getFrames", from |-> simState])

RecSaveRun ==
    /\ InWindow
    /\ Len(savedRunsRef) < MaxSavedRuns
    /\ runCounterRef < MaxRunCounter
    /\ \E id \in NowIds :
       \E nx \in {handleSave(RecCur, params, id)} :
          CmpApply(nx, [event |-> "saveRun", from |-> simState])

RecorderNext ==
    \/ RecRecord
    \/ RecReset
    \/ RecGetFrames
    \/ RecSaveRun

RecorderSpec == RecInit /\ [][RecorderNext]_vars

(***************************************************************************)
(* The recorder with the ComparePanel: frames are recorded, the recorder   *)
(* is reset, runs are saved, removed and cleared and the parameters        *)
(* handed to the panel change, in any order.  CompareSpec starts with an   *)
(* empty recorder and stores up to MaxCompareRuns runs of a few frames;    *)
(* SnapshotSpec takes the recorder through downsampling and stores up to   *)
(* MaxSavedRuns runs.                                                      *)
(***************************************************************************)
\* the parameter sets the panel is rendered with
CompareCfgs == {DEFAULT_PARAMS, 1}

HandleSave ==
    /\ InWindow
    /\ Len(savedRunsRef) < MaxCompareRuns
    /\ runCounterRef < MaxRunCounter
    /\ \E id \in NowIds :
       \E nx \in {handleSave(RecCur, params, id)} :
          CmpApply(nx, [event |-> "save", from |-> simState])

\* one Remove button per stored run
HandleRemove ==
    /\ InWindow
    /\ \E i \in 1..Len(savedRunsRef) :
       \E nx \in {handleRemove(RecCur, savedRunsRef[i].id)} :
          CmpApply(nx, [event |-> "remove", from |-> simState,
                        id |-> savedRunsRef[i].id])

\* the Clear All button is rendered while runs are stored
HandleClearAll ==
    /\ InWindow
    /\ savedRunsRef # <<>>
    /\ \E nx \in {handleClearAll(RecCur)} :
          CmpApply(nx, [event |-> "clearAll", from |-> simState])

\* the panel is rendered with other currentParams
CompareParams ==
    /\ InWindow
    /\ \E p \in CompareCfgs \ {params} :
          /\ params' = p
          /\ last' = [event |-> "currentParams", from |-> simState]
          /\ UNCHANGED <<simState, engine, prevParamsRef, liveValues, loading,
                         timers, framesRef, lastTimeRef, rafId, prevTimestamp,
                         simTime, completeFired, mountSimState, zombies,
                         completeCount, loads, savedRunsRef, runCounterRef,
                         held, download, marker, vm>>

CompareNext ==
    \/ RecRecord
    \/ RecReset
    \/ HandleSave
    \/ HandleRemove
    \/ HandleClearAll
    \/ CompareParams

CompareSpec == Init /\ [][CompareNext]_vars

SnapshotNext ==
    \/ RecRecord
    \/ RecReset
    \/ RecSaveRun
    \/ HandleRemove
    \/ HandleClearAll
    \/ CompareParams

SnapshotSpec == RecInit /\ [][SnapshotNext]_vars

(***************************************************************************)
(* exportCSV on its own: the recorder holds up to MaxCsvFrames frames with *)
(* all their fields, of either sign and with digits beyond the fourth      *)
(* decimal; Export CSV is clicked.                                         *)
(***************************************************************************)
\* frame k of a recording: twelve different values v * (100000 k + 10 j +
\* digit), the time (j = 0) never negative
SampleFrame(k, v) ==
    [time |-> 100000 * k + (k % 10),
     positionX |-> v * (100000 * k + 10 + ((k + 1) % 10)),
     positionY |-> v * (100000 * k + 20 + ((k + 2) % 10)),
     velocity |-> v * (100000 * k + 30 + ((k + 3) % 10)),
     velocityX |-> v * (100000 * k + 40 + ((k + 4) % 10)),
     velocityY |-> v * (100000 * k + 50 + ((k + 5) % 10)),
     acceleration |-> v * (100000 * k + 60 + ((k + 6) % 10)),
     ke |-> v * (100000 * k + 70 + ((k + 7) % 10)),
     pe |-> v * (100000 * k + 80 + ((k + 8) % 10)),
     totalEnergy |-> v * (100000 * k + 90 + ((k + 9) % 10)),
     displacement |-> v * (100000 * k + 100 + (k % 10)),
     height |-> v * (k % 10)]

\* the recordings: frame numbers increase along the buffer
SampleBuffers ==
    UNION {{[i \in 1..n |-> SampleFrame(ks[i], vs[i])] :
               ks \in {q \in [1..n -> 1..(MaxCsvFrames + 1)] :
                          \A i \in 1..(n - 1) : q[i] < q[i + 1]},
               vs \in [1..n -> {-1, 1}]} :
           n \in 0..MaxCsvFrames}

ExportInit ==
    /\ simState = "idle"
    /\ engine = "none"
    /\ params = DEFAULT_PARAMS
    /\ prevParamsRef = DEFAULT_PARAMS
    /\ liveValues = ZERO_LIVE
    /\ loading = FALSE
    /\ timers = 0
    /\ framesRef \in SampleBuffers
    /\ lastTimeRef = IF framesRef = <<>> THEN -1
                     ELSE framesRef[Len(framesRef)].time
    /\ rafId = 0
    /\ prevTimestamp = 0
    /\ simTime = 0
    /\ completeFired = FALSE
    /\ mountSimState = "idle"
    /\ zombies = <<>>
    /\ completeCount = 0
    /\ loads = 0
    /\ savedRunsRef = <<>>
    /\ runCounterRef = 0
    /\ held = NO_ARRAY
    /\ download = NOTHING
    /\ marker = NOTHING
    /\ vm = NOTHING
    /\ last = [event |-> "init", from |-> "idle"]

\* AnalysisPanel.handleExport
HandleExport ==
    /\ last.event # "export"
    /\ download' = exportCSV(getFrames(framesRef).frames, download)
    /\ last' = [event |-> "export", from |-> simState]
    /\ UNCHANGED <<simState, engine, params, prevParamsRef, liveValues, loading,
                   timers, framesRef, lastTimeRef, rafId, prevTimestamp, simTime,
                   completeFired, mountSimState, zombies, completeCount, loads,
                   savedRunsRef, runCounterRef, held, marker, vm>>

ExportSpec == ExportInit /\ [][HandleExport]_vars

(***************************************************************************)
(* The graph's marker on its own: a recorded buffer, a clock value, the    *)
(* graph is drawn and the scrubber is moved.                               *)
(***************************************************************************)
FrameTimes == {0, 16, 32, 50, 1040}
SeekTimes == {0, 8, 16, 24, 33, 41, 1060, 1100}

SeekBuffers ==
    UNION {{[i \in 1..n |-> [time |-> ts[i], stale |-> FALSE]] :
               ts \in {q \in [1..n -> FrameTimes] :
                          \A i \in 1..(n - 1) : q[i] < q[i + 1]}} :
           n \in 0..MaxSeekFrames}

SeekInit ==
    /\ simState = "paused"
    /\ engine = "none"
    /\ params = DEFAULT_PARAMS
    /\ prevParamsRef = DEFAULT_PARAMS
    /\ \E t \in SeekTimes : liveValues = [ZERO_LIVE EXCEPT !.time = t]
    /\ loading = FALSE
    /\ timers = 0
    /\ framesRef \in SeekBuffers
    /\ lastTimeRef = IF framesRef = <<>> THEN -1
                     ELSE framesRef[Len(framesRef)].time
    /\ rafId = 0
    /\ prevTimestamp = 0
    /\ simTime = liveValues.time
    /\ completeFired = FALSE
    /\ mountSimState = "paused"
    /\ zombies = <<>>
    /\ completeCount = 0
    /\ loads = 0
    /\ savedRunsRef = <<>>
    /\ runCounterRef = 0
    /\ held = NO_ARRAY
    /\ download = NOTHING
    /\ marker = NOTHING
    /\ vm = NOTHING
    /\ last = [event |-> "init", from |-> "paused"]

\* AdvancedGraph's draw effect with the props AnalysisPanel passes
DrawGraph ==
    /\ marker' = timeMarker(getFrames(framesRef).frames, RunsView,
                            liveValues.time)
    /\ last' = [event |-> "draw", from |-> simState]
    /\ UNCHANGED <<simState, engine, params, prevParamsRef, liveValues, loading,
                   timers, framesRef, lastTimeRef, rafId, prevTimestamp, simTime,
                   completeFired, mountSimState, zombies, completeCount, loads,
                   savedRunsRef, runCounterRef, held, download, vm>>

\* TimeScrubber's onChange -> handleTimeChange -> onTimeSeek?.(t), which
\* Simulation does not pass
Scrub ==
    /\ framesRef # <<>>
    /\ \E t \in SeekTimes : last' = [event |-> "scrub", from |-> simState]
    /\ UNCHANGED <<simState, engine, params, prevParamsRef, liveValues, loading,
                   timers, framesRef, lastTimeRef, rafId, prevTimestamp, simTime,
                   completeFired, mountSimState, zombies, completeCount, loads,
                   savedRunsRef, runCounterRef, held, download, marker, vm>>

SeekNext == DrawGraph \/ Scrub

SeekSpec == SeekInit /\ [][SeekNext]_vars

(***************************************************************************)
(* A VerticalMotion instance and its caller.  vm holds the configuration   *)
(* handed to the constructor (config), what the constructor gave (obj),    *)
(* the deltaTime arguments of the update calls since construction or the   *)
(* last reset (calls), and whether the instance was grounded when it was   *)
(* last reset (resetFrom).                                                 *)
(***************************************************************************)
VmConfigs ==
    [initialVelocity : {-200, 0, 300},
     initialHeight : {-1000, 0, 10500},
     gravity : {-10, 0, 10}]

VmDeltas == {-5, 0, 16, 32, 50, 70}

Constructed == vm # NOTHING /\ "threw" \notin DOMAIN vm.obj

VmUnchanged ==
    UNCHANGED <<simState, engine, params, prevParamsRef, liveValues, loading,
                timers, framesRef, lastTimeRef, rafId, prevTimestamp, simTime,
                completeFired, mountSimState, zombies, completeCount, loads,
                savedRunsRef, runCounterRef, held, download, marker>>

VmConstruct ==
    /\ vm = NOTHING
    /\ \E config \in VmConfigs :
          vm' = [config |-> config, obj |-> VerticalMotion(config),
                 calls |-> <<>>, resetFrom |-> "none"]
    /\ last' = [event |-> "vmNew", from |-> simState]
    /\ VmUnchanged

VmUpdate ==
    /\ Constructed
    /\ Len(vm.calls) < MaxVmUpdates
    /\ \E deltaTime \in VmDeltas :
          vm' = [vm EXCEPT !.obj = update(@, deltaTime),
                           !.calls = Append(@, deltaTime)]
    /\ last' = [event |-> "vmUpdate", from |-> simState]
    /\ VmUnchanged

VmReset ==
    /\ Constructed
    /\ vm' = [vm EXCEPT !.obj = reset(@), !.calls = <<>>,
                        !.resetFrom = IF vm.obj.isGrounded THEN "grounded"
                                      ELSE "flight"]
    /\ last' = [event |-> "vmReset", from |-> simState]
    /\ VmUnchanged

VmNext == VmConstruct \/ VmUpdate \/ VmReset

VmSpec == Init /\ [][VmNext]_vars

(***************************************************************************)
(* Two VerticalMotion instances built from one configuration, m1 (obj) and *)
(* m2 (twin), driven by the same sequence of update arguments; m1 may be   *)
(* ahead of m2.  seen holds what m1 reported after each of its calls.      *)
(***************************************************************************)
\* const s1 = m1.update(deltaTime)
updateFirst(pair, deltaTime) ==
    [pair EXCEPT !.obj = update(@, deltaTime),
                 !.calls = Append(@, deltaTime),
                 !.seen = Append(@, getState(update(pair.obj, deltaTime)))]

updateTwin_sharedVelocity(pair, deltaTime) ==
    [pair EXCEPT !.twin = update([@ EXCEPT !.velocity = pair.obj.velocity],
                                 deltaTime),
                 !.twinCalls = Append(@, deltaTime)]

\* const s2 = m2.update(deltaTime)
updateTwin(pair, deltaTime) ==
    [pair EXCEPT !.twin = update(@, deltaTime),
                 !.twinCalls = Append(@, deltaTime)]

TwinConstruct ==
    /\ vm = NOTHING
    /\ \E config \in VmConfigs :
          vm' = [config |-> config, obj |-> VerticalMotion(config),
                 twin |-> VerticalMotion(config),
                 calls |-> <<>>, twinCalls |-> <<>>, seen |-> <<>>]
    /\ last' = [event |-> "vmNew", from |-> simState]
    /\ VmUnchanged

TwinUpdateFirst ==
    /\ Constructed
    /\ Len(vm.calls) < MaxVmUpdates
    /\ \E deltaTime \in VmDeltas : vm' = updateFirst(vm, deltaTime)
    /\ last' = [event |-> "vmUpdate", from |-> simState]
    /\ VmUnchanged

TwinUpdateSecond ==
    /\ Constructed
    /\ Len(vm.twinCalls) < Len(vm.calls)
    /\ vm' = updateTwin(vm, vm.calls[Len(vm.twinCalls) + 1])
    /\ last' = [event |-> "vmUpdateTwin", from |-> simState]
    /\ VmUnchanged

TwinNext == TwinConstruct \/ TwinUpdateFirst \/ TwinUpdateSecond

TwinSpec == Init /\ [][TwinNext]_vars

(***************************************************************************)
(* Properties                                                              *)
(***************************************************************************)
\* the transitions documented with the SimState type
DocumentedTransitions ==
    {<<"idle", "playing">>, <<"playing", "paused">>, <<"paused", "playing">>,
     <<"playing", "completed">>, <<"completed", "playing">>}

\* analytic terminal time of engine e under parameters p
TerminalTime(e, p) ==
    CASE e = "vertical" -> computeFlightTime(VerticalV0(p), VerticalG(p))
      [] e = "pulley" -> PulleyFlightTime(PulleyAccel([params |-> p]), INITIAL_HEIGHT)
      [] e = "force" -> ForceFinalT(ForceAccel([params |-> p]))
      [] OTHER -> Infinity

\* what the mounted engine reports when it evaluates its model at t = 0
RestLive == StateEffect(engine, "idle", Cur).liveValues

ParamEvents == {"paramProp", "paramAux"}

\* C1: every change of the session state is a documented transition
\* (idle->playing, playing->paused, paused->playing, playing->completed,
\* completed->playing with the clock reset to 0 first) or leads to idle;
\* completed is entered from playing only.
C1_DocumentedTransitionsOnly ==
    [][simState' # simState =>
          \/ simState' = "idle"
          \/ /\ <<simState, simState'>> \in DocumentedTransitions
             /\ (simState = "completed" => simTime' = 0)]_vars

\* C2: a parameter change while paused leaves the recorder buffer and its
\* dedup cursor untouched, starts no tick loop and leaves the state (paused)
\* and the clock unchanged.
C2_PausedParamChangeKeepsRecorder ==
    [][(last'.event \in ParamEvents /\ simState = "paused") =>
          /\ framesRef' = framesRef
          /\ lastTimeRef' = lastTimeRef
          /\ rafId' = 0
          /\ simState' = "paused"
          /\ simTime' = simTime]_vars

\* C3: a parameter change while playing stops the tick loop, resets the
\* clock to 0, empties the recorder and restarts ticking; the session stays
\* playing and the buffer starts again from t = 0 (the next tick measures no
\* elapsed time).
C3_PlayingParamChangeRestarts ==
    [][(last'.event \in ParamEvents /\ simState = "playing") =>
          /\ simState' = "playing"
          /\ simTime' = 0
          /\ framesRef' = <<>>
          /\ lastTimeRef' = -1
          /\ rafId' = 1
          /\ prevTimestamp' = 0]_vars

\* C4: at every moment at most one tick registration exists, and none
\* survives a reset or the unmounting of its engine.
C4_SingleTickRegistration ==
    /\ rafId + Len(zombies) <= 1
    /\ zombies = <<>>

\* C5: once pause or reset has been invoked, a tick callback scheduled
\* before it is a no-op: no tick step is taken while the session is paused
\* or idle, and the clock of an engine that was reset away never advances.
C5_CancelledTickIsNoOp ==
    [][/\ simState \in {"paused", "idle"} => last'.event # "tick"
       /\ \A i \in 1..Len(zombies) :
             i <= Len(zombies') => zombies'[i].simTime = zombies[i].simTime]_vars

\* C6: in each run (from entering playing until the next reset, replay,
\* re-analysis or hot-swap) the completion signal is fired at most once.
C6_CompletesOncePerRun == completeCount <= 1

\* C7: when the session becomes completed, the engine clock is the analytic
\* terminal time of the run (the completing tick clamps the clock).
C7_ClockClampedAtCompletion ==
    [][(simState # "completed" /\ simState' = "completed") =>
          simTime' = TerminalTime(engine', params')]_vars

C9_ResetShowsRestState ==
    [][(last'.event = "reset" /\ hasEngine(Cur)) => liveValues' = RestLive]_vars

\* C9 amended: from any state, reset leaves the session idle with an empty
\* recorder, a cleared dedup cursor and zeroed live values; the engine is
\* unmounted and the parameters are the defaults, so no model is evaluated.
C9_ResetClearsEverything ==
    last.event = "reset" =>
        /\ simState = "idle"
        /\ engine = "none"
        /\ params = DEFAULT_PARAMS
        /\ framesRef = <<>>
        /\ lastTimeRef = -1
        /\ liveValues = ZERO_LIVE
        /\ rafId = 0
        /\ simTime = 0

C9_Witness == last.event = "reset" /\ last.from = "paused" /\ loads > 0

\* C10: every transition into idle clears the recorder: no frame recorded
\* before the transition is in the buffer afterwards, and the cursor does
\* not hold back the frames of the next run.
C10_IdleClearsRecorder ==
    /\ \A i \in 1..Len(framesRef) : ~framesRef[i].stale
    /\ (last.event \in {"visualize", "replay", "reset"} => lastTimeRef <= 0)

C12_ReplayOutsideCompletedIsNoOp ==
    [][(last'.event = "callReplay" /\ simState # "completed") =>
          /\ simState' = simState
          /\ simTime' = simTime
          /\ liveValues' = liveValues
          /\ framesRef' = framesRef
          /\ lastTimeRef' = lastTimeRef]_vars

PauseEvents == {"pause", "callPause"}

PlayEvents == {"play", "callPlay"}

\* C14: handlePlay moves an idle or paused session to playing; called in
\* playing or completed it changes neither the session state, the clock,
\* the recorder nor the registered tick callback.
C14_PlayOnlyFromIdleOrPaused ==
    [][last'.event \in PlayEvents =>
          IF simState \in {"idle", "paused"}
          THEN simState' = "playing"
          ELSE /\ simState' = simState
               /\ simTime' = simTime
               /\ framesRef' = framesRef
               /\ lastTimeRef' = lastTimeRef
               /\ rafId' = rafId
               /\ prevTimestamp' = prevTimestamp
               /\ zombies' = zombies]_vars

\* handlePlay was called on a playing session in mid-run
C14_Witness ==
    /\ last.event = "callPlay"
    /\ last.from = "playing"
    /\ simState = "playing"
    /\ rafId = 1
    /\ simTime > 0

\* the clock advances a tick can make: none on the first callback after a
\* (re)start, else the host delta capped at DT_CAP
TickAdvances == {0} \cup {Min(d, DT_CAP) : d \in HostDeltas}

\* C15: a tick never decreases the clock and never advances it by more than
\* DT_CAP; unless the tick completes the run (the clock is then clamped to
\* the terminal time) the advance is the capped host delta.
C15_TickAdvanceCapped ==
    [][last'.event = "tick" =>
          /\ simTime' >= simTime
          /\ simTime' - simTime <= DT_CAP
          /\ simState' # "completed" => (simTime' - simTime) \in TickAdvances]_vars

\* the buffer is in time order
Sorted(frames) ==
    \A i \in 1..(Len(frames) - 1) : frames[i].time <= frames[i + 1].time

\* C16: the recorder buffer is sorted by non-decreasing time in every state,
\* whatever frames are offered (also a frame at t = 0 after later frames)
\* and whatever resets, saves and downsamplings happen.
C16_BufferSorted == Sorted(framesRef)

\* a frame at t = 0 was offered to a buffer that has been downsampled and
\* holds frames of later times
C16_Witness ==
    /\ last.event = "record"
    /\ last.time = 0
    /\ lastTimeRef > 0
    /\ Len(framesRef) > MAX_FRAMES \div 2
    /\ framesRef[2].time - framesRef[1].time > MIN_TIME_DELTA

\* C17: in every state, so after every recordFrame call, the buffer holds at
\* most MAX_FRAMES frames, however many frames have been recorded.
C17_BufferWithinCap == Len(framesRef) <= MAX_FRAMES

\* the frame just recorded was appended to a full buffer, which was
\* downsampled
C17_Witness ==
    /\ last.event = "record"
    /\ lastTimeRef = last.time
    /\ lastTimeRef >= MAX_FRAMES * MIN_TIME_DELTA
    /\ Len(framesRef) = (MAX_FRAMES \div 2 + 1) \div 2 + MAX_FRAMES + 1
                           - MAX_FRAMES \div 2

\* C18: an accepted frame is appended; when that makes the buffer longer
\* than MAX_FRAMES, the new buffer is the 1st, 3rd, 5th, ... of the first
\* MAX_FRAMES/2 frames (indices 0, 2, 4, ... counted from 0) in their order,
\* followed by every later frame, the appended one included, unchanged and
\* in order.  In every state the frame recorded last is the last element
\* of the buffer.
C18_DownsampleKeepsRecent ==
    /\ [][(/\ last'.event = "record"
           /\ (lastTimeRef < 0 \/ last'.time - lastTimeRef >= MIN_TIME_DELTA)) =>
             \E pushed \in {Append(framesRef,
                                   [time |-> last'.time, stale |-> FALSE])} :
             \E half \in {MAX_FRAMES \div 2} :
             \E kept \in {(half + 1) \div 2} :
                IF Len(pushed) > MAX_FRAMES
                THEN /\ Len(framesRef') = kept + Len(pushed) - half
                     /\ \A i \in 1..kept : framesRef'[i] = pushed[2 * i - 1]
                     /\ \A j \in (half + 1)..Len(pushed) :
                           framesRef'[kept + j - half] = pushed[j]
                ELSE framesRef' = pushed]_vars
    /\ [](framesRef # <<>> => framesRef[Len(framesRef)].time = lastTimeRef)

\* a frame was appended to a full buffer that had been downsampled before:
\* the oldest frames have been thinned twice
C18_Witness ==
    /\ last.event = "record"
    /\ lastTimeRef = last.time
    /\ Len(framesRef) > MAX_FRAMES \div 2
    /\ Len(framesRef) < MAX_FRAMES - RecWindow
    /\ framesRef[2].time - framesRef[1].time = 4 * MIN_TIME_DELTA

\* C19: a frame offered to recordFrame becomes the last element of the
\* buffer exactly when the buffer is empty (nothing recorded since the last
\* reset) or its time is at least MIN_TIME_DELTA after the time of the last
\* element; otherwise buffer and dedup cursor stay as they were.  In every
\* state neighbouring frames of the buffer are at least MIN_TIME_DELTA
\* apart.
C19_DedupByTimeDelta ==
    /\ [][last'.event = "record" =>
             IF \/ framesRef = <<>>
                \/ last'.time >= framesRef[Len(framesRef)].time + MIN_TIME_DELTA
             THEN /\ framesRef' # <<>>
                  /\ framesRef'[Len(framesRef')] =
                        [time |-> last'.time, stale |-> FALSE]
                  /\ lastTimeRef' = last'.time
                  /\ framesRef' # framesRef
             ELSE /\ framesRef' = framesRef
                  /\ lastTimeRef' = lastTimeRef]_vars
    /\ [](\A i \in 1..(Len(framesRef) - 1) :
             framesRef[i + 1].time - framesRef[i].time >= MIN_TIME_DELTA)

\* a frame one unit short of the dedup distance was offered and rejected
C19_Witness ==
    /\ last.event = "record"
    /\ Len(framesRef) >= 2
    /\ last.time = lastTimeRef + MIN_TIME_DELTA - 1

\* C20: the value a getFrames call returned is a snapshot: whatever is
\* recorded or reset afterwards, its holder reads from it the frames the
\* buffer held when the call returned.
C20_GetFramesIsSnapshot == held.ref # "none" => HeldValue = held.atCall

\* C21: recording, downsampling, a recorder reset and a change of the
\* current parameters leave every saved run as it is (frames, parameters,
\* label, id); a save appends a run holding the buffer and the parameters
\* of that moment and leaves the runs before it as they are; remove and
\* clear all leave the live buffer, the dedup cursor and the session state
\* as they are.
C21_SavedRunsIndependent ==
    [][/\ last'.event \in {"record", "recorderReset", "currentParams"} =>
             RunsView' = RunsView
       /\ (last'.event = "saveRun" /\ framesRef # <<>>) =>
             /\ Len(RunsView') = Len(RunsView) + 1
             /\ SubSeq(RunsView', 1, Len(RunsView)) = RunsView
             /\ RunsView'[Len(RunsView')].frames = framesRef
             /\ RunsView'[Len(RunsView')].params = params
       /\ last'.event \in {"remove", "clearAll"} =>
             /\ framesRef' = framesRef
             /\ lastTimeRef' = lastTimeRef
             /\ simState' = simState]_vars

\* a run saved from a nearly full buffer is stored while the buffer has
\* since been downsampled and the parameters have changed
C21_Witness ==
    /\ Len(savedRunsRef) = 1
    /\ Len(savedRunsRef[1].frames) >= MAX_FRAMES - RecWindow
    /\ Len(framesRef) > MAX_FRAMES \div 2
    /\ Len(framesRef) < Len(savedRunsRef[1].frames)
    /\ framesRef[2].time - framesRef[1].time > MIN_TIME_DELTA
    /\ savedRunsRef[1].params # params

C27_GroundedReportsRest ==
    /\ liveValues.height >= 0
    /\ (engine = "vertical" /\ simState = "completed" /\ last.event = "tick") =>
           /\ liveValues.height = 0
           /\ liveValues.velocity = 0

\* the instance after the update calls numbered i and later
RECURSIVE RunFrom(_, _, _)
RunFrom(m, calls, i) ==
    IF i > Len(calls) THEN m ELSE RunFrom(update(m, calls[i]), calls, i + 1)

\* C28: reset restores time 0, position initialHeight, velocity
\* initialVelocity, maxHeight initialHeight, isAtPeak false and isGrounded
\* false, however far the run had gone; and at every moment the state the
\* instance reports is the state a freshly constructed instance with the
\* same configuration reports after the update calls made since the reset.
C28_ResetRestoresInitial ==
    Constructed =>
        /\ last.event = "vmReset" =>
               /\ getState(vm.obj).time = 0
               /\ getState(vm.obj).position = vm.config.initialHeight
               /\ getState(vm.obj).velocity = vm.config.initialVelocity
               /\ getState(vm.obj).maxHeight = vm.config.initialHeight
               /\ ~getState(vm.obj).isAtPeak
               /\ ~getState(vm.obj).isGrounded
        /\ getState(vm.obj)
              = getState(RunFrom(VerticalMotion(vm.config), vm.calls, 1))

\* an instance that had risen and hit the ground was reset and has since
\* risen, peaked and hit the ground again
C28_Witness ==
    /\ Constructed
    /\ vm.resetFrom = "grounded"
    /\ vm.config.initialVelocity > 0
    /\ Len(vm.calls) = 3
    /\ vm.obj.isGrounded
    /\ vm.obj.maxHeight > vm.config.initialHeight

C30_DegenerateConfigRejected ==
    Constructed =>
        /\ vm.config.gravity # 0
        /\ vm.obj.analyticalFlightTime > 0

\* C31: after a parameter change while paused (vertical engine), the live
\* values displayed are the model evaluated under the new configuration at
\* the paused clock value, which the change leaves as it was.
C31_PausedChangeShowsNewConfig ==
    [][(last'.event \in ParamEvents /\ simState = "paused"
           /\ engine = "vertical") =>
          /\ simTime' = simTime
          /\ liveValues' =
                [time |-> simTime,
                 height |-> Max(0, computeHeight(VerticalV0(params'),
                                                 VerticalG(params'), simTime)),
                 velocity |-> computeVelocity(VerticalV0(params'),
                                              VerticalG(params'), simTime)]]_vars

\* C32: within one playing run the clock values the engine evaluates are
\* non-decreasing: a tick that is not the first of its run (the loop has
\* measured a timestamp since it was last started) evaluates the model at a
\* clock value not below the one evaluated before it, reports that value,
\* and does not move the recorder's cursor back.
C32_RunClockMonotonic ==
    [][(last'.event = "tick" /\ prevTimestamp # 0) =>
          /\ simTime' >= simTime
          /\ liveValues'.time = simTime'
          /\ lastTimeRef' >= lastTimeRef]_vars

\* a vertical run has ticked twice, the first tick evaluating the clock
\* value 0 and the second a later one, both recorded in that order
C32_Witness ==
    /\ engine = "vertical"
    /\ simState = "playing"
    /\ last.event = "tick"
    /\ prevTimestamp # 0
    /\ simTime = 20
    /\ liveValues.time = 20
    /\ framesRef = <<[time |-> 0, stale |-> FALSE, superseded |-> FALSE],
                   [time |-> 20, stale |-> FALSE, superseded |-> FALSE]>>

\* C33: in a run with initialVelocity > 0 and gravity > 0 an update call
\* reports isAtPeak true exactly when it is the call on which the velocity
\* goes from positive to non-positive; every other call, a zero-dt call and
\* a call after grounding included, reports false.
C33_PeakReportedOnce ==
    [][(Constructed /\ last'.event = "vmUpdate"
           /\ vm.config.initialVelocity > 0 /\ vm.config.gravity > 0) =>
          (getState(vm'.obj).isAtPeak
              <=> (vm.obj.velocity > 0 /\ vm'.obj.velocity <= 0))]_vars

\* the sequences of update arguments a run can consist of
CallSeqs == UNION {[1..n -> VmDeltas] : n \in 0..MaxVmUpdates}

\* C34: the position and the velocity reported at clock value t depend only
\* on the configuration and on t: any other division of [0, t] into updates
\* of a fresh instance of the same configuration reports the same two
\* values.
C34_TickSizeIndependent ==
    Constructed =>
        \A calls \in CallSeqs :
            \A other \in {RunFrom(VerticalMotion(vm.config), calls, 1)} :
                getState(other).time = getState(vm.obj).time =>
                    /\ getState(other).position = getState(vm.obj).position
                    /\ getState(other).velocity = getState(vm.obj).velocity

\* twice the mechanical energy per unit mass, v^2 + 2 g h, in mm^2/s^2
TwiceEnergy(velocity, position, gravity) ==
    velocity * velocity + 2 * gravity * position

\* C35: before ground contact the mechanical energy of the reported state,
\* v^2 / 2 + g h for unit mass, is exactly its value at t = 0.
C35_EnergyConserved ==
    (Constructed /\ ~getState(vm.obj).isGrounded) =>
        TwiceEnergy(getState(vm.obj).velocity, getState(vm.obj).position,
                    vm.config.gravity)
            = TwiceEnergy(vm.config.initialVelocity, vm.config.initialHeight,
                          vm.config.gravity)

C37_NoAutoPlayAfterReset ==
    [][/\ last'.event = "reset" => (simState' = "idle" /\ timers' = 0)
       /\ (last.event = "reset" /\ simState' # simState) =>
              last'.event \in {"play", "visualize", "fetchOk"}]_vars

\* C38: a bounded engine (vertical, incline, pulley) that is playing and
\* ticking runs under a configuration whose terminal time is positive and
\* finite, the condition without which no sequence of ticks completes the
\* run.
C38_PlayingRunCanComplete ==
    (engine \in {"vertical", "pulley", "force"} /\ simState = "playing"
        /\ last.event = "tick") =>
        /\ TerminalTime(engine, params) > 0
        /\ TerminalTime(engine, params) < Infinity

\* C39: while a run is playing and ticking, every frame of the recorder
\* buffer was evaluated under the configuration in force: the buffer holds
\* no frame recorded before a parameter change or before the load of a new
\* problem replaced the configuration it was computed from.
C39_BufferOfCurrentRun ==
    (simState = "playing" /\ last.event = "tick" /\ engine # "none") =>
        \A i \in 1..Len(framesRef) : ~framesRef[i].superseded

\* C40: the stored runs always have pairwise distinct ids, and a removal
\* by id takes exactly one run out of the store, the run with that id,
\* every other stored run staying in its place.
C40_RemoveTakesExactlyOne ==
    [][/\ \A i, j \in 1..Len(savedRunsRef') :
              savedRunsRef'[i].id = savedRunsRef'[j].id => i = j
       /\ last'.event = "remove" =>
              \E i \in 1..Len(savedRunsRef) :
                  /\ savedRunsRef[i].id = last'.id
                  /\ savedRunsRef' =
                         [k \in 1..(Len(savedRunsRef) - 1) |->
                             IF k < i THEN savedRunsRef[k]
                             ELSE savedRunsRef[k + 1]]]_vars

CellValue(c) == (IF c.neg THEN -1 ELSE 1) * (10000 * c.whole + c.frac)

\* C24: exporting an empty buffer produces no file; exporting n > 0 frames
\* produces the header line followed by n lines, line i + 1 holding frame
\* i of the buffer: twelve cells, cell k being the frame's field named by
\* header column k (to four decimals).
C24_ExportOneRowPerFrame ==
    last.event = "export" =>
        IF framesRef = <<>> THEN download = NOTHING
        ELSE /\ Len(download) = Len(framesRef) + 1
             /\ download[1] = header
             /\ Len(header) = 12
             /\ \A i \in 1..Len(framesRef) :
                   /\ Len(download[i + 1]) = 12
                   /\ \A k \in 1..12 :
                         /\ download[i + 1][k].frac \in 0..9999
                         /\ download[i + 1][k].neg = (framesRef[i][header[k]] < 0)
                         /\ Abs(10 * CellValue(download[i + 1][k])
                                  - framesRef[i][header[k]]) <= 5

\* a buffer of several frames with positive and negative values was
\* exported
C24_Witness ==
    /\ last.event = "export"
    /\ Len(framesRef) = MaxCsvFrames
    /\ framesRef[1].velocity < 0
    /\ framesRef[2].velocity > 0
    /\ download # NOTHING

TypeOK ==
    /\ simState \in SimStates
    /\ engine \in Engines \cup {"none"}
    /\ rafId \in {0, 1}
    /\ simTime \in 0..MaxSimTime

====
